---------------------------- MODULE Spec2Model ----------------------------
(***************************************************************************)
(* A model of parseLLMJson (src/src/utils/jsonParser.ts): the extraction   *)
(* of JSON candidates from a text, their repair and their decoding.        *)
(*                                                                         *)
(* A text is a sequence of one-character strings.  Offsets handed around   *)
(* by the code (match.index, lastIndex, start, end, tryIndex) keep their   *)
(* JavaScript meaning: they are 0-based, and -1 means "none".  The helper  *)
(* operators on texts take 1-based offsets, and 0 means "none".            *)
(*                                                                         *)
(* A value that the code binds once and reads several times is handed to   *)
(* an operator as a parameter.                                             *)
(***************************************************************************)
EXTENDS Integers, Sequences, FiniteSets, TLC

(***************************************************************************)
(* Characters and the string primitives of the JavaScript runtime.         *)
(***************************************************************************)
QUOTE == "\""
BSLASH == "\\"
NL == "\n"
\* the backtick character (the lexer of TLA+ does not take it in a string)
BTICK == "<backtick>"
WS == {" ", "\n", "\t", "\r"}
Digits == {"0", "1", "2", "3", "4", "5", "6", "7", "8", "9"}

\* s.substring(a, b) for 0 <= a <= b: the characters at offsets a .. b-1
Substring(s, a, b) == SubSeq(s, a + 1, IF b > Len(s) THEN Len(s) ELSE b)

\* the offset a, or b when a is "none": the order in which a search that
\* runs from one side takes the two halves of its range
OrElse(a, b) == IF a # 0 THEN a ELSE b

\* the first offset in lo..hi whose character is in S, or 0
RECURSIVE FirstIn(_, _, _, _)
FirstIn(s, lo, hi, S) ==
    IF lo > hi THEN 0
    ELSE IF lo = hi THEN (IF s[lo] \in S THEN lo ELSE 0)
    ELSE OrElse(FirstIn(s, lo, (lo + hi) \div 2, S), FirstIn(s, (lo + hi) \div 2 + 1, hi, S))

\* the first offset in lo..hi whose character is not in S, or 0
RECURSIVE FirstNotIn(_, _, _, _)
FirstNotIn(s, lo, hi, S) ==
    IF lo > hi THEN 0
    ELSE IF lo = hi THEN (IF s[lo] \notin S THEN lo ELSE 0)
    ELSE OrElse(FirstNotIn(s, lo, (lo + hi) \div 2, S),
                FirstNotIn(s, (lo + hi) \div 2 + 1, hi, S))

\* the last offset in lo..hi whose character is in S, or 0
RECURSIVE LastIn(_, _, _, _)
LastIn(s, lo, hi, S) ==
    IF lo > hi THEN 0
    ELSE IF lo = hi THEN (IF s[lo] \in S THEN lo ELSE 0)
    ELSE OrElse(LastIn(s, (lo + hi) \div 2 + 1, hi, S), LastIn(s, lo, (lo + hi) \div 2, S))

\* the last offset in lo..hi whose character is not in S, or 0
RECURSIVE LastNotIn(_, _, _, _)
LastNotIn(s, lo, hi, S) ==
    IF lo > hi THEN 0
    ELSE IF lo = hi THEN (IF s[lo] \notin S THEN lo ELSE 0)
    ELSE OrElse(LastNotIn(s, (lo + hi) \div 2 + 1, hi, S),
                LastNotIn(s, lo, (lo + hi) \div 2, S))

\* String.prototype.trim
TrimFrom(s, a) == IF a = 0 THEN <<>> ELSE SubSeq(s, a, LastNotIn(s, 1, Len(s), WS))
Trim(s) == TrimFrom(s, FirstNotIn(s, 1, Len(s), WS))

\* pat occurs in s at the offset i
MatchesAt(s, i, pat) ==
    /\ i >= 1
    /\ i + Len(pat) - 1 <= Len(s)
    /\ \A k \in 1..Len(pat) : s[i + k - 1] = pat[k]

\* the first offset in lo..hi at which pat occurs, or 0
RECURSIVE FindFrom(_, _, _, _)
FindFrom(s, lo, hi, pat) ==
    IF lo > hi THEN 0
    ELSE IF lo = hi THEN (IF MatchesAt(s, lo, pat) THEN lo ELSE 0)
    ELSE OrElse(FindFrom(s, lo, (lo + hi) \div 2, pat),
                FindFrom(s, (lo + hi) \div 2 + 1, hi, pat))

StartsWith(s, c) == Len(s) > 0 /\ s[1] = c
EndsWith(s, c) == Len(s) > 0 /\ s[Len(s)] = c

\* (s.match(/c/g) || []).length
CountChar(s, c) == Cardinality({i \in 1..Len(s) : s[i] = c})

\* the elements of s at the offsets lo..hi that are not in the set drop
RECURSIVE DropAt(_, _, _, _)
DropAt(s, lo, hi, drop) ==
    IF lo > hi THEN <<>>
    ELSE IF lo = hi THEN (IF lo \in drop THEN <<>> ELSE <<s[lo]>>)
    ELSE DropAt(s, lo, (lo + hi) \div 2, drop) \o DropAt(s, (lo + hi) \div 2 + 1, hi, drop)

\* j, or the offset past the end of s when j is "none"
OrEnd(s, j) == IF j = 0 THEN Len(s) + 1 ELSE j
\* the first offset >= i that holds no white space, Len(s)+1 if none
SkipWs(s, i) == OrEnd(s, FirstNotIn(s, i, Len(s), WS))

(***************************************************************************)
(* JSON.parse.  A decoded value is a record of one shape for every kind:   *)
(* k is the kind, s the characters of a string or the digits of a number,  *)
(* a the elements of an array, o the members of an object as a set of      *)
(* <<key, value>> pairs with one pair per key (a repeated key keeps its    *)
(* last value; member order is not observable by deep equality).  The      *)
(* numbers of the model are integers: a fraction, an exponent or a \u      *)
(* escape is outside the alphabet of the model and is rejected.            *)
(***************************************************************************)
Val(k, s, a, o) == [k |-> k, s |-> s, a |-> a, o |-> o]
NullVal == Val("none", <<>>, <<>>, {})
NoParse == [ok |-> FALSE, nxt |-> 0, val |-> NullVal]
Parsed(v, n) == [ok |-> TRUE, nxt |-> n, val |-> v]

Unescape(c) ==
    CASE c = "n" -> NL
      [] c = "t" -> "\t"
      [] c = "r" -> "\r"
      [] c = "b" -> "<b>"
      [] c = "f" -> "<f>"
      [] OTHER -> c

StrStep(st, c, i) ==
    IF st.esc
    THEN IF c \in {QUOTE, BSLASH, "/", "n", "t", "r", "b", "f"}
         THEN [st EXCEPT !.esc = FALSE, !.acc = Append(@, Unescape(c))]
         ELSE [st EXCEPT !.done = TRUE, !.ok = FALSE]
    ELSE IF c = QUOTE THEN [st EXCEPT !.done = TRUE, !.ok = TRUE, !.end = i]
    ELSE IF c = BSLASH THEN [st EXCEPT !.esc = TRUE]
    ELSE IF c \in {NL, "\t", "\r"} THEN [st EXCEPT !.done = TRUE, !.ok = FALSE]
    ELSE [st EXCEPT !.acc = Append(@, c)]

\* the characters of a string literal at the offsets lo..hi, up to its end
RECURSIVE StrScan(_, _, _, _)
StrScan(s, lo, hi, st) ==
    IF st.done \/ lo > hi THEN st
    ELSE IF lo = hi THEN StrStep(st, s[lo], lo)
    ELSE StrScan(s, (lo + hi) \div 2 + 1, hi, StrScan(s, lo, (lo + hi) \div 2, st))

StrInit == [done |-> FALSE, ok |-> FALSE, esc |-> FALSE, acc |-> <<>>, end |-> 0]
StringResult(st) ==
    IF st.done /\ st.ok THEN Parsed(Val("str", st.acc, <<>>, {}), st.end + 1)
    ELSE NoParse
\* a string literal whose opening quote is at the offset i
ParseString(s, i) == StringResult(StrScan(s, i + 1, Len(s), StrInit))

Signed(neg, digs) == IF neg /\ digs # <<"0">> THEN <<"-">> \o digs ELSE digs
DigitsEnd(s, d) ==
    IF d > Len(s) \/ s[d] \notin Digits THEN d
    ELSE IF s[d] = "0" THEN d + 1
    ELSE OrEnd(s, FirstNotIn(s, d, Len(s), Digits))
NumberResult(s, d, neg, e) ==
    IF e = d \/ (e <= Len(s) /\ s[e] \in {".", "e", "E"}) THEN NoParse
    ELSE Parsed(Val("num", Signed(neg, SubSeq(s, d, e - 1)), <<>>, {}), e)
NumberFrom(s, d, neg) == NumberResult(s, d, neg, DigitsEnd(s, d))
\* an integer literal starting at the offset i
ParseNumber(s, i) == NumberFrom(s, IF s[i] = "-" THEN i + 1 ELSE i, s[i] = "-")

ParseLiteral(s, i) ==
    IF MatchesAt(s, i, <<"t", "r", "u", "e">>)
    THEN Parsed(Val("true", <<>>, <<>>, {}), i + 4)
    ELSE IF MatchesAt(s, i, <<"f", "a", "l", "s", "e">>)
    THEN Parsed(Val("false", <<>>, <<>>, {}), i + 5)
    ELSE IF MatchesAt(s, i, <<"n", "u", "l", "l">>)
    THEN Parsed(Val("null", <<>>, <<>>, {}), i + 4)
    ELSE NoParse

RECURSIVE ParseValue(_, _), ParseElements(_, _, _), ParseMembers(_, _, _)

\* after an element: the offset k holds "]" or ","
ElementsNext(s, acc, k) ==
    IF k > Len(s) THEN NoParse
    ELSE IF s[k] = "]" THEN Parsed(Val("arr", <<>>, acc, {}), k + 1)
    ELSE IF s[k] = "," THEN ParseElements(s, SkipWs(s, k + 1), acc)
    ELSE NoParse
ElementsAfter(s, acc, v) ==
    IF ~v.ok THEN NoParse ELSE ElementsNext(s, Append(acc, v.val), SkipWs(s, v.nxt))
\* the elements of an array from the offset i on, acc those before
ParseElements(s, i, acc) == ElementsAfter(s, acc, ParseValue(s, i))
ArrayFrom(s, j) ==
    IF j <= Len(s) /\ s[j] = "]" THEN Parsed(Val("arr", <<>>, <<>>, {}), j + 1)
    ELSE ParseElements(s, j, <<>>)

Put(acc, name, v) == {p \in acc : p[1] # name} \cup {<<name, v>>}
\* after a member: the offset k holds "}" or ","
MembersNext(s, acc, k) ==
    IF k > Len(s) THEN NoParse
    ELSE IF s[k] = "}" THEN Parsed(Val("obj", <<>>, <<>>, acc), k + 1)
    ELSE IF s[k] = "," THEN ParseMembers(s, SkipWs(s, k + 1), acc)
    ELSE NoParse
MemberAfter(s, acc, name, v) ==
    IF ~v.ok THEN NoParse ELSE MembersNext(s, Put(acc, name, v.val), SkipWs(s, v.nxt))
MemberValue(s, acc, name, c) ==
    IF c > Len(s) \/ s[c] # ":" THEN NoParse
    ELSE MemberAfter(s, acc, name, ParseValue(s, SkipWs(s, c + 1)))
MemberColon(s, acc, key) ==
    IF ~key.ok THEN NoParse ELSE MemberValue(s, acc, key.val.s, SkipWs(s, key.nxt))
\* the members of an object from the offset i on, acc those before
ParseMembers(s, i, acc) ==
    IF i <= Len(s) /\ s[i] = QUOTE THEN MemberColon(s, acc, ParseString(s, i))
    ELSE NoParse
ObjectFrom(s, j) ==
    IF j <= Len(s) /\ s[j] = "}" THEN Parsed(Val("obj", <<>>, <<>>, {}), j + 1)
    ELSE ParseMembers(s, j, {})

\* a value starting at the offset i, which holds no white space
ParseValue(s, i) ==
    IF i > Len(s) THEN NoParse
    ELSE IF s[i] = QUOTE THEN ParseString(s, i)
    ELSE IF s[i] = "-" \/ s[i] \in Digits THEN ParseNumber(s, i)
    ELSE IF s[i] = "[" THEN ArrayFrom(s, SkipWs(s, i + 1))
    ELSE IF s[i] = "{" THEN ObjectFrom(s, SkipWs(s, i + 1))
    ELSE ParseLiteral(s, i)

WholeText(s, v) == IF v.ok /\ SkipWs(s, v.nxt) > Len(s) THEN v ELSE NoParse
\* JSON.parse(s): ok is FALSE where JSON.parse throws a SyntaxError
JSONParse(s) == WholeText(s, ParseValue(s, SkipWs(s, 1)))

\* Object.keys(v).length; Object.keys(null) throws a TypeError
KeysThrows(v) == v.k = "null"
KeysLength(v) ==
    CASE v.k = "obj" -> Cardinality(v.o)
      [] v.k = "arr" -> Len(v.a)
      [] v.k = "str" -> Len(v.s)
      [] OTHER -> 0

(***************************************************************************)
(* extractJson: the four regular expressions, each run with exec from its  *)
(* lastIndex, and the results list they share.                             *)
(***************************************************************************)
Fence == <<BTICK, BTICK, BTICK>>
NoMatch == [found |-> FALSE, index |-> -1, capture |-> <<>>, lastIndex |-> 0]
Match(index, capture, lastIndex) ==
    [found |-> TRUE, index |-> index, capture |-> capture, lastIndex |-> lastIndex]

\* the smaller of two offsets of which 0 means "none"
Earlier(a, b) == IF a = 0 THEN b ELSE IF b = 0 THEN a ELSE IF a < b THEN a ELSE b

\* the closing fence is at t: the lazy group ends before an optional newline
JsonBlockClose(text, i, p, t) ==
    IF t = 0 THEN NoMatch
    ELSE Match(i - 1,
               SubSeq(text, p, (IF t - 1 >= p /\ text[t - 1] = NL THEN t - 1 ELSE t) - 1),
               t + 2)
\* \s* has taken the white space up to p
JsonBlockBody(text, i, p) == JsonBlockClose(text, i, p, FindFrom(text, p, Len(text), Fence))
\* the tagged opening fence is at i
JsonBlockOpen(text, i) == IF i = 0 THEN NoMatch ELSE JsonBlockBody(text, i, SkipWs(text, i + 7))
\* /```(?:json|JSON)\s*\n?([\s\S]*?)\n?```/g run by exec at lastIndex = from
JsonBlockExec(text, from) ==
    JsonBlockOpen(text,
                  Earlier(FindFrom(text, from + 1, Len(text), Fence \o <<"j", "s", "o", "n">>),
                          FindFrom(text, from + 1, Len(text), Fence \o <<"J", "S", "O", "N">>)))

CodeBlockClose(text, i, t) ==
    IF t = 0 THEN NoMatch ELSE Match(i - 1, SubSeq(text, i + 3, t - 1), t + 2)
CodeBlockOpen(text, i) ==
    IF i = 0 THEN NoMatch ELSE CodeBlockClose(text, i, FindFrom(text, i + 3, Len(text), Fence))
\* /```([\s\S]*?)```/g run by exec at lastIndex = from
CodeBlockExec(text, from) == CodeBlockOpen(text, FindFrom(text, from + 1, Len(text), Fence))

\* the first offset in lo..hi where open, one character that is neither
\* open nor close, and close follow each other; 0 if none
RECURSIVE FindFlat(_, _, _, _, _)
FindFlat(s, lo, hi, open, close) ==
    IF lo > hi THEN 0
    ELSE IF lo = hi
    THEN (IF /\ lo + 2 <= Len(s)
             /\ s[lo] = open
             /\ s[lo + 1] \notin {open, close}
             /\ s[lo + 2] = close
          THEN lo ELSE 0)
    ELSE OrElse(FindFlat(s, lo, (lo + hi) \div 2, open, close),
                FindFlat(s, (lo + hi) \div 2 + 1, hi, open, close))

JsonLikeAt(text, i) == IF i = 0 THEN NoMatch ELSE Match(i - 1, SubSeq(text, i, i + 2), i + 2)
\* /{[^{}]}/g and /\[[^\[\]]\]/g run by exec at lastIndex = from
JsonLikeExec(text, from, open, close) ==
    JsonLikeAt(text, FindFlat(text, from + 1, Len(text), open, close))

Result(type, content, position) ==
    [type |-> type, content |-> content, position |-> position]

\* Priority 1: the loop over the fenced blocks tagged json
RECURSIVE JsonBlockLoop(_, _, _, _)
JsonBlockPush(text, results, maxBlocks, m) ==
    IF m.found /\ Len(results) < maxBlocks
    THEN JsonBlockLoop(text, m.lastIndex,
                       Append(results, Result("block", Trim(m.capture), m.index)),
                       maxBlocks)
    ELSE results
JsonBlockLoop(text, from, results, maxBlocks) ==
    JsonBlockPush(text, results, maxBlocks, JsonBlockExec(text, from))

\* Priority 2: the loop over all fenced blocks; testAt is the lastIndex that
\* jsonBlockPattern.test(text) starts from, tagged what it finds
RECURSIVE CodeBlockLoop(_, _, _, _, _)
CodeBlockPush(text, results, maxBlocks, m, tagged) ==
    IF m.found /\ Len(results) < maxBlocks
    THEN CodeBlockLoop(text, m.lastIndex, tagged.lastIndex,
                       IF tagged.found THEN results
                       ELSE Append(results, Result("code", Trim(m.capture), m.index)),
                       maxBlocks)
    ELSE results
CodeBlockLoop(text, from, testAt, results, maxBlocks) ==
    CodeBlockPush(text, results, maxBlocks, CodeBlockExec(text, from),
                  JsonBlockExec(text, testAt))

\* Priority 3 and 4: the loops over the flat object and array literals
RECURSIVE JsonLikeLoop(_, _, _, _, _, _, _)
JsonLikePush(text, results, maxBlocks, type, open, close, m) ==
    IF m.found /\ Len(results) < maxBlocks
    THEN JsonLikeLoop(text, m.lastIndex,
                      Append(results, Result(type, m.capture, m.index)),
                      maxBlocks, type, open, close)
    ELSE results
JsonLikeLoop(text, from, results, maxBlocks, type, open, close) ==
    JsonLikePush(text, results, maxBlocks, type, open, close,
                 JsonLikeExec(text, from, open, close))

\* r put into the sorted list front, behind the entries that are not after it
InsertByPosition(front, r) ==
    SubSeq(front, 1, Cardinality({i \in 1..Len(front) : front[i].position <= r.position}))
    \o <<r>>
    \o SubSeq(front, Cardinality({i \in 1..Len(front) : front[i].position <= r.position}) + 1,
              Len(front))
\* Mutation of SortByPosition: the results stay in the order of the strategies
Unsorted(results) == results
\* results.sort((a, b) => a.position - b.position): a stable sort
RECURSIVE SortByPosition(_)
SortByPosition(results) ==
    IF Len(results) <= 1 THEN results
    ELSE InsertByPosition(SortByPosition(SubSeq(results, 1, Len(results) - 1)),
                          results[Len(results)])

\* the results of the four loops, sorted
ExtractResults(text, maxBlocks) ==
    SortByPosition(
        JsonLikeLoop(text, 0,
            JsonLikeLoop(text, 0,
                CodeBlockLoop(text, 0, 0, JsonBlockLoop(text, 0, <<>>, maxBlocks), maxBlocks),
                maxBlocks, "inline", "{", "}"),
            maxBlocks, "array", "[", "]"))

\* results.map(r => r.content)
Contents(sorted) == [i \in 1..Len(sorted) |-> sorted[i].content]
extractJson(text, maxBlocks) == Contents(ExtractResults(text, maxBlocks))

(***************************************************************************)
(* fixCommonJsonIssues, without its cache (the cache is the variable       *)
(* jsonCache of the state machine below).                                  *)
(***************************************************************************)
AddBrace(s) == IF CountChar(s, "{") > CountChar(s, "}") THEN Append(s, "}") ELSE s
AddBracket(s) == IF CountChar(s, "[") > CountChar(s, "]") THEN Append(s, "]") ELSE s
FixClosingOf(jsonStr, trimmed, attemptFix) ==
    IF FirstIn(jsonStr, 1, Len(jsonStr), {NL}) # 0
    THEN IF ~EndsWith(trimmed, "}") /\ ~EndsWith(trimmed, "]")
         THEN AddBracket(AddBrace(jsonStr))
         ELSE jsonStr
    ELSE IF StartsWith(trimmed, "{") /\ ~EndsWith(trimmed, "}") /\ attemptFix
         THEN Append(trimmed, "}")
    ELSE IF StartsWith(trimmed, "[") /\ ~EndsWith(trimmed, "]") /\ attemptFix
         THEN Append(trimmed, "]")
    ELSE jsonStr
\* Fix simple closing brace issues
FixClosing(jsonStr, attemptFix) == FixClosingOf(jsonStr, Trim(jsonStr), attemptFix)

\* the comma at i is followed by white space and then, at j, by a closer
BeforeCloser(s, j) == j <= Len(s) /\ s[j] \in {"}", "]"}
TrailingCommas(s) == {i \in 1..Len(s) : s[i] = "," /\ BeforeCloser(s, SkipWs(s, i + 1))}
DropCommas(s, drop) == IF drop = {} THEN s ELSE DropAt(s, 1, Len(s), drop)
\* fixed.replace(/,(\s*[}\]])/g, '$1')
FixTrailingCommas(s) == DropCommas(s, TrailingCommas(s))

\* fixed.replace(/(?<!\\)"/g, '\"'): the replacement '\"' is the quote itself
FixQuotes(s) ==
    [i \in 1..Len(s) |->
        IF s[i] = QUOTE /\ (i = 1 \/ s[i - 1] # BSLASH) THEN QUOTE ELSE s[i]]

FixCompute(jsonStr, attemptFix) ==
    FixQuotes(FixTrailingCommas(FixClosing(jsonStr, attemptFix)))

(***************************************************************************)
(* findJsonBoundaries                                                      *)
(***************************************************************************)
BoundStep(st, c, i) ==
    IF st.escapeNext THEN [st EXCEPT !.escapeNext = FALSE]
    ELSE IF c = QUOTE /\ ~st.inString
    THEN [st EXCEPT !.inString = TRUE, !.start = IF @ = -1 THEN i ELSE @]
    ELSE IF c = QUOTE /\ st.inString THEN [st EXCEPT !.inString = FALSE]
    ELSE IF c = BSLASH THEN [st EXCEPT !.escapeNext = TRUE]
    ELSE IF ~st.inString
    THEN IF c \in {"{", "["}
         THEN [st EXCEPT !.start = IF st.depth = 0 /\ @ = -1 THEN i ELSE @,
                         !.depth = @ + 1]
         ELSE IF c \in {"}", "]"}
         THEN IF st.depth - 1 = 0
              THEN [st EXCEPT !.depth = 0, !.end = i + 1, !.returned = TRUE]
              ELSE [st EXCEPT !.depth = @ - 1]
         ELSE st
    ELSE st

\* the scan loop over the offsets lo..hi; the i of BoundStep is 0-based
RECURSIVE BoundScan(_, _, _, _)
BoundScan(text, lo, hi, st) ==
    IF st.returned \/ lo > hi THEN st
    ELSE IF lo = hi THEN BoundStep(st, text[lo], lo - 1)
    ELSE BoundScan(text, (lo + hi) \div 2 + 1, hi, BoundScan(text, lo, (lo + hi) \div 2, st))

BoundInit ==
    [start |-> -1, end |-> -1, depth |-> 0, inString |-> FALSE,
     escapeNext |-> FALSE, returned |-> FALSE]
\* Mutation of Boundaries: end is returned as the loop left it
BoundariesAsLeft(text, st) == [start |-> st.start, end |-> st.end]
Boundaries(text, st) ==
    [start |-> st.start, end |-> IF st.end = -1 THEN Len(text) ELSE st.end]
findJsonBoundaries(text) == Boundaries(text, BoundScan(text, 1, Len(text), BoundInit))

(***************************************************************************)
(* extractValidJson                                                        *)
(***************************************************************************)
\* Mutation of SegOpen: an opener never starts a new segment
SegOpenNoSplit(st, c, split) ==
    [st EXCEPT !.current = Append(@, c),
               !.braceCount = @ + 1,
               !.bracketCount = @ + (IF c = "[" THEN 1 ELSE 0)]
SegOpen(st, c, split) ==
    [st EXCEPT !.segments = IF split THEN Append(@, st.current) ELSE @,
               !.current = IF split THEN <<c>> ELSE Append(@, c),
               !.braceCount = @ + 1,
               !.bracketCount = @ + (IF c = "[" THEN 1 ELSE 0)]
SegClose(st, c, braces, brackets) ==
    [st EXCEPT !.segments = IF braces = 0 /\ brackets = 0
                            THEN Append(@, Append(st.current, c)) ELSE @,
               !.current = IF braces = 0 /\ brackets = 0 THEN <<>> ELSE Append(@, c),
               !.braceCount = braces,
               !.bracketCount = brackets]
SegStep(st, c) ==
    IF st.escapeNext
    THEN [st EXCEPT !.current = Append(@, c), !.escapeNext = FALSE]
    ELSE IF c = BSLASH
    THEN [st EXCEPT !.current = Append(@, c), !.escapeNext = TRUE]
    ELSE IF c = QUOTE /\ ~st.inString
    THEN [st EXCEPT !.current = Append(@, c), !.inString = TRUE]
    ELSE IF c = QUOTE /\ st.inString
    THEN [st EXCEPT !.current = Append(@, c), !.inString = FALSE]
    ELSE IF ~st.inString /\ c \in {"{", "["}
    THEN SegOpen(st, c, st.current = <<>> \/ EndsWith(st.current, ","))
    ELSE IF ~st.inString /\ c \in {"}", "]"}
    THEN SegClose(st, c, st.braceCount - 1, st.bracketCount - (IF c = "]" THEN 1 ELSE 0))
    ELSE [st EXCEPT !.current = Append(@, c)]

\* the walk over the offsets lo..hi, the left half before the right
RECURSIVE SegScan(_, _, _, _)
SegScanRight(text, mid, hi, left) ==
    IF left.inString \in BOOLEAN THEN SegScan(text, mid + 1, hi, left) ELSE left
SegScan(text, lo, hi, st) ==
    IF lo > hi THEN st
    ELSE IF lo = hi THEN SegStep(st, text[lo])
    ELSE SegScanRight(text, (lo + hi) \div 2, hi, SegScan(text, lo, (lo + hi) \div 2, st))

SegInit ==
    [segments |-> <<>>, current |-> <<>>, braceCount |-> 0, bracketCount |-> 0,
     inString |-> FALSE, escapeNext |-> FALSE]

NonBlank(s) == Len(Trim(s)) > 0
\* lines 230-231: the rest of the accumulator, then the filter
Segments(st) ==
    SelectSeq(IF NonBlank(st.current) THEN Append(st.segments, st.current)
              ELSE st.segments,
              NonBlank)
\* the fallback walk of lines 178-231
SplitSegments(text) == Segments(SegScan(text, 1, Len(text), SegInit))

\* line 174
HasSpan(b) == b.start # -1 /\ b.end # -1 /\ b.start < b.end
SpanOrSegments(text, b) ==
    IF HasSpan(b)
    THEN <<Substring(text, b.start, b.end)>>
    ELSE SplitSegments(text)
extractValidJson(text) ==
    IF Len(Trim(text)) < 2 THEN <<>>
    ELSE SpanOrSegments(text, findJsonBoundaries(text))

(***************************************************************************)
(* tryCompleteJson                                                         *)
(***************************************************************************)
\* Mutation of Closers: a text with brackets only is closed with one bracket
ClosersOfKind(hasBrace, hasBracket) ==
    IF hasBrace /\ ~hasBracket THEN <<"}", "}">>
    ELSE IF hasBracket /\ ~hasBrace THEN <<"]">>
    ELSE <<"}">>
Closers(hasBrace, hasBracket) ==
    IF hasBrace /\ ~hasBracket THEN <<"}", "}">>
    ELSE IF hasBracket /\ ~hasBrace THEN <<"]", "}">>
    ELSE <<"}">>
\* lines 350-356
Validated(balanced) == [json |-> balanced, valid |-> JSONParse(balanced).ok]
\* lastBrace is the 0-based offset of the last opener, -1 if none
CompleteAt(attempt, lastBrace) ==
    IF lastBrace = -1 THEN [json |-> attempt, valid |-> FALSE]
    ELSE Validated(Substring(attempt, 0, lastBrace)
                   \o Closers(FirstIn(attempt, 1, Len(attempt), {"{"}) # 0,
                              FirstIn(attempt, 1, Len(attempt), {"["}) # 0))
CompleteFrom(attempt) == CompleteAt(attempt, LastIn(attempt, 1, Len(attempt), {"{", "["}) - 1)
tryCompleteJson(partialJson) == CompleteFrom(Trim(partialJson))

(***************************************************************************)
(* Program constants                                                       *)
(***************************************************************************)
DefaultMaxBlocks == 5
PartialMinLength == 1000
TruncFloor == 100
MaxAttempts == 3

\* Math.floor(n * 0.8) and Math.floor(n * 0.9)
FirstCut(n) == (n * 8) \div 10
NextCut(n) == (n * 9) \div 10

\* the parameter default `options = {}` and the defaults of the destructuring
DefaultOptions ==
    [kind |-> "undefined", attemptFix |-> TRUE, maxBlocks |-> DefaultMaxBlocks,
     preferFirst |-> TRUE, allowPartial |-> FALSE]

\* const unwrapResponse = (obj) => obj
unwrapResponse(obj) == obj

\* Mutation of InvalidInputError: a failure without an error text
NoErrorText == ""
InvalidInputError == "Invalid input: response must be a non-empty string"
NoValidJsonError == "No valid JSON found in the response"
NullOptionsError == "TypeError: Cannot destructure property of null"

NoResult ==
    [status |-> "none", success |-> FALSE, data |-> NullVal, hasData |-> FALSE,
     rawJson |-> <<>>, hasRawJson |-> FALSE, error |-> ""]
Success(data, rawJson) ==
    [status |-> "returned", success |-> TRUE, data |-> data, hasData |-> TRUE,
     rawJson |-> rawJson, hasRawJson |-> TRUE, error |-> ""]
\* Mutation of Failure: the failure hands back a rawJson
FailureWithRawJson(error) ==
    [status |-> "returned", success |-> FALSE, data |-> NullVal, hasData |-> FALSE,
     rawJson |-> <<>>, hasRawJson |-> TRUE, error |-> error]
Failure(error) ==
    [status |-> "returned", success |-> FALSE, data |-> NullVal, hasData |-> FALSE,
     rawJson |-> <<>>, hasRawJson |-> FALSE, error |-> error]
Thrown(error) ==
    [status |-> "thrown", success |-> FALSE, data |-> NullVal, hasData |-> FALSE,
     rawJson |-> <<>>, hasRawJson |-> FALSE, error |-> error]

\* [...new Set(candidates)]: the first occurrence of each candidate, in order
KeepAt(cands, first) ==
    IF first = 1..Len(cands) THEN cands
    ELSE DropAt(cands, 1, Len(cands), (1..Len(cands)) \ first)
Unique(cands) ==
    KeepAt(cands, {i \in 1..Len(cands) : \A j \in 1..(i - 1) : cands[j] # cands[i]})

\* jsonCache.has / jsonCache.get / jsonCache.set around the repair
CacheHas(cache, s) == \E p \in cache : p[1] = s
fixCommonJsonIssues(cache, s, attemptFix) ==
    IF CacheHas(cache, s) THEN (CHOOSE p \in cache : p[1] = s)[2]
    ELSE FixCompute(s, attemptFix)
\* Mutation of CachePut: the cache keeps the text as it was before the repair
CachePutOriginal(cache, s, fixed) ==
    IF CacheHas(cache, s) THEN cache ELSE cache \cup {<<s, s>>}
\* jsonCache.set(original, fixed), reached only when the cache has no entry
CachePut(cache, s, fixed) ==
    IF CacheHas(cache, s) THEN cache ELSE cache \cup {<<s, fixed>>}

(***************************************************************************)
(* The texts and options of the calls.  MaxNest bounds the nesting of the  *)
(* JSON documents, MaxCalls the number of calls a caller makes in a row,   *)
(* PadLength is the length of the filler of the long texts.                *)
(***************************************************************************)
MaxNest == 1
MaxCalls == 3
PadLength == 1000
\* the runs of the body of the truncation loop that are followed for one
\* candidate (the loop itself has no such bound)
MaxTries == 4

Str(chars) == <<QUOTE>> \o chars \o <<QUOTE>>
Member(key, v) == Str(key) \o <<":">> \o v
Obj1(v) == <<"{">> \o Member(<<"a">>, v) \o <<"}">>
Obj2(v, w) == <<"{">> \o Member(<<"a">>, v) \o <<",">> \o Member(<<"b">>, w) \o <<"}">>
Arr1(v) == <<"[">> \o v \o <<"]">>
Rep(c, n) == [i \in 1..n |-> c]

Atoms ==
    {<<"1">>, <<"1", "2">>, Str(<<"a">>), <<"{", "}">>, <<"[", "]">>, <<"{", " ", "}">>,
     Arr1(<<"1">>), Obj1(<<"5">>)}

RECURSIVE Docs(_)
Wrapped(inner) ==
    inner \cup {Arr1(v) : v \in inner} \cup {Obj1(v) : v \in inner}
          \cup {Obj2(v, <<"1">>) : v \in inner}
Docs(d) == IF d = 0 THEN Atoms ELSE Wrapped(Docs(d - 1))

ValidDocs == Docs(MaxNest)
ObjectDocs == {d \in ValidDocs : d[1] = "{"}
ClosedDocs == {d \in ValidDocs : d[1] \in {"{", "["}}
NestedObjectDocs == {d \in ObjectDocs : CountChar(d, "{") >= 2}

\* ```json, newline, s, newline, ```
Fenced(s) == Fence \o <<"j", "s", "o", "n", NL>> \o s \o <<NL>> \o Fence
\* prose without brace, bracket or backtick around a document
InProse(d) == <<"S", "u", "r", "e", "!", " ">> \o d \o <<" ", "H", "o", "p", "e", ".">>
\* prose that quotes a word before the document
InQuotingProse(d) == <<"s", "a", "y", " ", QUOTE, "h", "i", QUOTE, " ">> \o d
\* a comma placed right before the last closer
TrailingComma(d) == SubSeq(d, 1, Len(d) - 1) \o <<",", d[Len(d)]>>
\* the last character removed
DropLast(d) == SubSeq(d, 1, Len(d) - 1)

LongTexts ==
    {Rep("1", PadLength) \o <<" ", "x">>,
     <<"{">> \o Member(<<"a">>, <<"1">>) \o <<" ", "[">> \o Rep("a", PadLength),
     <<"{", " ", "[">> \o Rep("a", PadLength),
     <<"[", "1", ",", "[", "2">> \o Rep("1", PadLength),
     <<"[">> \o Rep("1", PadLength),
     <<"[">> \o Arr1(<<"1">>) \o <<" ", "[">> \o Rep("1", PadLength),
     <<"{">> \o Member(<<"a">>, <<QUOTE>> \o Rep("a", PadLength)),
     <<"{">> \o Member(<<"a">>, Obj1(<<"1">>)) \o <<" ", "{">> \o Rep("a", PadLength)}

\* texts with several candidates, each with the document of the candidate
\* that starts first among those that decode
BlockTexts ==
    {<<Obj1(<<"5">>), Fenced(Obj1(<<"5">>)) \o <<NL>> \o Fenced(Arr1(<<"1">>))>>,
     <<Arr1(<<"1">>), Fenced(Arr1(<<"1">>)) \o <<NL>> \o Fenced(Obj1(<<"5">>))>>,
     <<Obj1(<<"5">>), Fenced(<<"x">>) \o <<NL>> \o Fenced(Obj1(<<"5">>))>>,
     <<Arr1(<<"1">>), Arr1(<<"1">>) \o <<" ">> \o Fenced(Obj1(<<"5">>))>>,
     <<Obj1(<<"5">>),
       Fenced(Obj1(<<"5">>)) \o <<NL>> \o Fence \o <<NL>> \o Obj1(<<"1">>) \o <<NL>> \o Fence>>}

Input(kind, base, text) == [kind |-> kind, base |-> base, text |-> text]

Inputs ==
    {Input("doc", d, d) : d \in ValidDocs}
    \cup {Input("padded", d, <<" ">> \o d \o <<NL>>) : d \in Atoms}
    \cup {Input("prose", d, InProse(d)) : d \in ObjectDocs}
    \cup {Input("quoting", d, InQuotingProse(d)) : d \in Atoms}
    \cup {Input("trailing", d, TrailingComma(d)) : d \in ClosedDocs}
    \cup {Input("unbalanced", d, DropLast(d)) : d \in ObjectDocs}
    \cup {Input("garbage", <<>>, g) :
            g \in {<<>>, <<" ">>, <<"n", "o", "t", " ", "j", "s", "o", "n">>}}
    \cup {Input("long", <<>>, l) : l \in LongTexts}
    \cup {Input("cut", Obj1(<<"1", "2">>), DropLast(DropLast(Obj1(<<"1", "2">>)))),
          Input("cut", Obj1(Str(<<"a", "b">>)),
                DropLast(DropLast(DropLast(Obj1(Str(<<"a", "b">>))))))}
    \cup {Input("blocks", b[1], b[2]) : b \in BlockTexts}
    \cup {Input("capped", Arr1(<<"1">>), Fenced(<<"x">>) \o <<NL>> \o Arr1(<<"1">>))}
    \cup {Input("open", Obj1(Arr1(<<"1">>)), DropLast(DropLast(Obj1(Arr1(<<"1">>))))),
          Input("open", Obj1(Arr1(<<"1">>)),
                <<"{">> \o Member(<<"a">>, <<"[", NL, "1">>))}
    \cup {Input("flat", Obj1(<<"5">>), Obj1(<<"5">>) \o <<" ">> \o Arr1(<<"1">>)),
          Input("flat", <<"{", "1", "}">>, <<"{", "1", "}", " ">> \o Obj1(<<"5">>))}
    \cup {Input("stray", <<>>, <<QUOTE, "x", " ">> \o TrailingComma(Arr1(<<"1">>)))}

OptionValues ==
    {DefaultOptions,
     [DefaultOptions EXCEPT !.kind = "null"],
     [DefaultOptions EXCEPT !.kind = "object", !.attemptFix = FALSE],
     [DefaultOptions EXCEPT !.kind = "object", !.allowPartial = TRUE],
     [DefaultOptions EXCEPT !.kind = "object", !.maxBlocks = 1, !.preferFirst = FALSE]}


(***************************************************************************)
(* The state machine: one call of parseLLMJson after another.              *)
(*                                                                         *)
(* unwrapInScope is the one thing the build decides.  unwrapResponse is a  *)
(* const declared inside the try block of line 363, and tryParseJson,      *)
(* declared outside that block, names it.  With block scoping (ES2015 and  *)
(* later) the name does not resolve there: each `unwrapResponse ? ...`     *)
(* raises a ReferenceError inside the try that surrounds it.  Compiled     *)
(* down to function-scoped var (ES5) the name resolves to the identity.    *)
(***************************************************************************)
VARIABLES
    response,       \* the text of the current call
    options,        \* its options, after the defaults
    origin,         \* how the text was made: [kind, base] (history)
    unwrapInScope,  \* the build: does unwrapResponse resolve in tryParseJson
    callNo,         \* the number of the current call
    prev,           \* the result of the previous call (history)
    pc,             \* the place of the call in the code
    jsonCache,      \* the repair cache: a set of <<original, fixed>>
    candidates,     \* the candidates of the loop that is running
    ci,             \* the 1-based index of the candidate under trial
    pass,           \* "main": the loop of line 376; "fixed": that of line 391
    current,        \* tryParseJson's current
    attempts,       \* tryParseJson's attempts
    tryIndex,       \* tryParseJson's tryIndex
    result,         \* what the call returned or threw
    tries,          \* the runs of the body of the loop of line 292 (history)
    scan,           \* findJsonBoundaries run step by step (ScanSpec only)
    walk            \* extractValidJson run step by step (WalkSpec only)

vars ==
    <<response, options, origin, unwrapInScope, callNo, prev, pc, jsonCache,
      candidates, ci, pass, current, attempts, tryIndex, result, tries, scan,
      walk>>

callVars == <<response, options, origin, unwrapInScope, callNo, prev, scan, walk>>

\* findJsonBoundaries before its loop: i is the offset of the next character,
\* st the locals, value what the function has returned once done
ScanStart ==
    [i |-> 0, st |-> BoundInit, done |-> FALSE, value |-> [start |-> -1, end |-> -1]]

\* extractValidJson before its first line: at is where the function stands
\* ("entry", then "walk" in the loop of line 186, then "done"), i the number
\* of characters the loop has read, st the locals, value what it returned
WalkStart == [at |-> "entry", i |-> 0, st |-> SegInit, value |-> <<>>]

Init ==
    /\ \E in \in Inputs :
          /\ response = in.text
          /\ origin = [kind |-> in.kind, base |-> in.base]
    /\ options \in OptionValues
    /\ unwrapInScope \in BOOLEAN
    /\ callNo = 1
    /\ prev = NoResult
    /\ pc = "call"
    /\ jsonCache = {}
    /\ candidates = <<>>
    /\ ci = 0
    /\ pass = "main"
    /\ current = <<>>
    /\ attempts = 0
    /\ tries = 0
    /\ tryIndex = 0
    /\ result = NoResult
    /\ scan = ScanStart
    /\ walk = WalkStart

\* Mutation of Unwrapped: rawJson is the response, not the text that decoded
UnwrappedFromResponse(s, parsed) ==
    IF parsed.ok /\ unwrapInScope THEN Success(unwrapResponse(parsed.val), response)
    ELSE NoResult
\* a try block of tryParseJson: JSON.parse gave parsed, then unwrapResponse
\* is named; NoResult stands for the catch
Unwrapped(s, parsed) ==
    IF parsed.ok /\ unwrapInScope THEN Success(unwrapResponse(parsed.val), s)
    ELSE NoResult
Decode(s) == Unwrapped(s, JSONParse(s))

Return(r) ==
    /\ result' = r
    /\ pc' = "done"

\* tryParseJson returns a failure: the loop goes to the next candidate
NextCandidate ==
    /\ ci' = ci + 1
    /\ pc' = "loop"

\* lines 2-7: destructuring null throws, outside the try block
ThrowOnNullOptions ==
    /\ pc = "call"
    /\ options.kind = "null"
    /\ Return(Thrown(NullOptionsError))
    /\ UNCHANGED <<callVars, jsonCache, candidates, ci, pass, current, attempts, tryIndex, tries>>

\* lines 10-17
RejectInvalidInput ==
    /\ pc = "call"
    /\ options.kind # "null"
    /\ response = <<>>
    /\ Return(Failure(InvalidInputError))
    /\ UNCHANGED <<callVars, jsonCache, candidates, ci, pass, current, attempts, tryIndex, tries>>

\* lines 369-371: the fallback when extractJson found nothing
OrPlainText(text, found) == IF Len(found) = 0 THEN extractValidJson(text) ELSE found

\* lines 365-373
Extract ==
    /\ pc = "call"
    /\ options.kind # "null"
    /\ response # <<>>
    /\ candidates' = Unique(OrPlainText(response, extractJson(response, options.maxBlocks)))
    /\ ci' = 1
    /\ pc' = "loop"
    /\ UNCHANGED <<callVars, jsonCache, pass, current, attempts, tryIndex, tries, result>>

EnterTryParseJson(trimmed) ==
    IF Len(trimmed) = 0
    THEN /\ NextCandidate
         /\ UNCHANGED <<current, attempts>>
    ELSE /\ current' = trimmed
         /\ attempts' = 0
         /\ pc' = "direct"
         /\ UNCHANGED ci

\* lines 376-377 and 391-392 with 236-241: the next candidate enters tryParseJson
TryCandidate ==
    /\ pc = "loop"
    /\ ci <= Len(candidates)
    /\ EnterTryParseJson(Trim(candidates[ci]))
    /\ UNCHANGED <<callVars, jsonCache, candidates, pass, tryIndex, result>>
    /\ tries' = 0

\* Mutation of AfterDirect: the repair is tried whatever attemptFix is
AfterDirectThenFix(r) ==
    IF r.success
    THEN /\ Return(r)
         /\ UNCHANGED <<attempts, ci>>
    ELSE /\ attempts' = attempts + 1
         /\ pc' = "fix"
         /\ UNCHANGED <<ci, result>>
AfterDirect(r) ==
    IF r.success
    THEN /\ Return(r)
         /\ UNCHANGED <<attempts, ci>>
    ELSE /\ attempts' = attempts + 1
         /\ IF options.attemptFix
            THEN pc' = "fix" /\ UNCHANGED ci
            ELSE NextCandidate
         /\ UNCHANGED result

\* lines 244-254 (and 315 when attemptFix is off)
DirectDecode ==
    /\ pc = "direct"
    /\ AfterDirect(Decode(current))
    /\ UNCHANGED <<callVars, jsonCache, candidates, pass, current, tryIndex, tries>>

AfterFix(fixed, r) ==
    /\ current' = fixed
    /\ jsonCache' = CachePut(jsonCache, current, fixed)
    /\ IF r.success THEN Return(r) ELSE pc' = "scan" /\ UNCHANGED result
Fixed(fixed) == AfterFix(fixed, Decode(fixed))

\* lines 259-270
FixDecode ==
    /\ pc = "fix"
    /\ Fixed(fixCommonJsonIssues(jsonCache, current, options.attemptFix))
    /\ UNCHANGED <<callVars, candidates, ci, pass, attempts, tryIndex, tries>>

AfterScan(tried, cur, r) ==
    /\ current' = cur
    /\ IF tried /\ r.success
       THEN /\ Return(r)
            /\ UNCHANGED <<ci, tryIndex>>
       ELSE /\ UNCHANGED result
            /\ IF options.allowPartial /\ Len(cur) > PartialMinLength
               THEN /\ tryIndex' = FirstCut(Len(cur))
                    /\ pc' = "trunc"
                    /\ UNCHANGED ci
               ELSE /\ NextCandidate
                    /\ UNCHANGED tryIndex
ScanFrom(tried, cur) == AfterScan(tried, cur, Decode(cur))
Scanned(extracted) ==
    ScanFrom(Len(extracted) > 0, IF Len(extracted) > 0 THEN extracted[1] ELSE current)

\* lines 273-291 (and 315 when the truncation is not entered)
ScanDecode ==
    /\ pc = "scan"
    /\ Scanned(extractValidJson(current))
    /\ UNCHANGED <<callVars, jsonCache, candidates, pass, attempts, tries>>

\* lines 293-294
Completed == tryCompleteJson(Substring(current, 0, tryIndex))
\* lines 296-310 for the re-closed text: "throw" is the catch block, "accept"
\* the return, "repeat" the end of the try block with nothing returned
TruncJudge(valid, parsed) ==
    IF ~parsed.ok THEN "throw"
    ELSE IF ~valid /\ KeysThrows(parsed.val) THEN "throw"
    ELSE IF valid \/ KeysLength(parsed.val) > 0
    THEN (IF unwrapInScope THEN "accept" ELSE "throw")
    ELSE "repeat"
TruncOutcomeOf(completed) == TruncJudge(completed.valid, JSONParse(completed.json))
TruncOutcome == TruncOutcomeOf(Completed)
Accepted(completed) == Success(unwrapResponse(JSONParse(completed.json).val), completed.json)
InTruncLoop == pc = "trunc" /\ tryIndex > TruncFloor /\ attempts < MaxAttempts

\* lines 292-305: the re-closed text decodes and is accepted
TruncAccept ==
    /\ InTruncLoop
    /\ TruncOutcome = "accept"
    /\ Return(Accepted(Completed))
    /\ UNCHANGED <<callVars, jsonCache, candidates, ci, pass, current, attempts, tryIndex>>
    /\ tries' = tries + 1

\* lines 306-310: something in the try block threw
TruncShorten ==
    /\ InTruncLoop
    /\ TruncOutcome = "throw"
    /\ tryIndex' = NextCut(tryIndex)
    /\ attempts' = attempts + 1
    /\ UNCHANGED <<callVars, pc, jsonCache, candidates, ci, pass, current, result>>
    /\ tries' = tries + 1

\* lines 296-298 and back to 292: the re-closed text decodes, the condition
\* of line 298 is false and nothing threw, so nothing is assigned: the next
\* run of the body is the same
TruncRepeat ==
    /\ InTruncLoop
    /\ TruncOutcome = "repeat"
    /\ tries < MaxTries
    /\ tries' = tries + 1
    /\ UNCHANGED <<callVars, pc, jsonCache, candidates, ci, pass, current, attempts, tryIndex,
                   result>>

\* line 292 ends the loop, line 315 returns the failure
TruncGiveUp ==
    /\ pc = "trunc"
    /\ ~(tryIndex > TruncFloor /\ attempts < MaxAttempts)
    /\ NextCandidate
    /\ UNCHANGED <<callVars, jsonCache, candidates, pass, current, attempts, tryIndex, tries,
                   result>>

FixedResponse(fixed) ==
    /\ candidates' = extractJson(fixed, options.maxBlocks)
    /\ jsonCache' = CachePut(jsonCache, response, fixed)

\* lines 388-391: the main loop is over, the repair of the whole response
LastResort ==
    /\ pc = "loop"
    /\ ci > Len(candidates)
    /\ pass = "main"
    /\ options.attemptFix
    /\ FixedResponse(fixCommonJsonIssues(jsonCache, response, options.attemptFix))
    /\ ci' = 1
    /\ pass' = "fixed"
    /\ UNCHANGED <<callVars, pc, current, attempts, tryIndex, tries, result>>

\* lines 411-416
ReturnNoValidJson ==
    /\ pc = "loop"
    /\ ci > Len(candidates)
    /\ pass = "fixed" \/ ~options.attemptFix
    /\ Return(Failure(NoValidJsonError))
    /\ UNCHANGED <<callVars, jsonCache, candidates, ci, pass, current, attempts, tryIndex, tries>>

\* the caller's next call; every call builds its own jsonCache (line 20)
CallWith(text, kind) ==
    /\ pc = "done"
    /\ callNo < MaxCalls
    /\ result.status = "returned"
    /\ response' = text
    /\ origin' = [kind |-> kind, base |-> response]
    /\ prev' = result
    /\ callNo' = callNo + 1
    /\ UNCHANGED <<options, unwrapInScope, scan, walk>>
    /\ pc' = "call"
    /\ jsonCache' = {}
    /\ candidates' = <<>>
    /\ ci' = 0
    /\ pass' = "main"
    /\ current' = <<>>
    /\ attempts' = 0
    /\ tries' = 0
    /\ tryIndex' = 0
    /\ result' = NoResult

\* the caller parses the rawJson it was given
ParseRawJson ==
    /\ result.success
    /\ origin.kind # "rawJson"
    /\ CallWith(result.rawJson, "rawJson")

\* the caller parses the same text inside a fenced block tagged json
ParseFenced ==
    /\ origin.kind \notin {"rawJson", "fenced"}
    /\ CallWith(Fenced(response), "fenced")

Next ==
    \/ ThrowOnNullOptions
    \/ RejectInvalidInput
    \/ Extract
    \/ TryCandidate
    \/ DirectDecode
    \/ FixDecode
    \/ ScanDecode
    \/ TruncAccept
    \/ TruncShorten
    \/ TruncRepeat
    \/ TruncGiveUp
    \/ LastResort
    \/ ReturnNoValidJson
    \/ ParseRawJson
    \/ ParseFenced

Spec == Init /\ [][Next]_vars

(***************************************************************************)
(* findJsonBoundaries on its own, one character of the text at a step.     *)
(* ScanLen bounds the length of the texts, which are all the texts over    *)
(* the characters that the scanner tells apart.                            *)
(***************************************************************************)
ScanLen == 4

ScanTexts ==
    UNION {[1..n -> {"{", "}", "[", "]", QUOTE, BSLASH, "a"}] : n \in 0..ScanLen}

ScanInit ==
    /\ response \in ScanTexts
    /\ origin = [kind |-> "scan", base |-> <<>>]
    /\ options = DefaultOptions
    /\ unwrapInScope = TRUE
    /\ callNo = 1
    /\ prev = NoResult
    /\ pc = "call"
    /\ jsonCache = {}
    /\ candidates = <<>>
    /\ ci = 0
    /\ pass = "main"
    /\ current = <<>>
    /\ attempts = 0
    /\ tries = 0
    /\ tryIndex = 0
    /\ result = NoResult
    /\ scan = ScanStart
    /\ walk = WalkStart

notScan ==
    <<response, options, origin, unwrapInScope, callNo, prev, pc, jsonCache,
      candidates, ci, pass, current, attempts, tryIndex, result, tries, walk>>

\* the locals st after the loop body has run on the character at offset i - 1
ScanAfter(i, st) ==
    [i |-> i, st |-> st, done |-> st.returned,
     value |-> IF st.returned THEN [start |-> st.start, end |-> st.end] ELSE scan.value]

\* Mutation of ScanChar: the loop body runs with the escape flag cleared
ScanCharUnescaped ==
    /\ ~scan.done
    /\ scan.i < Len(response)
    /\ scan' = ScanAfter(scan.i + 1,
                         BoundStep([scan.st EXCEPT !.escapeNext = FALSE],
                                   response[scan.i + 1], scan.i))
    /\ UNCHANGED notScan
\* lines 135-163: one turn of the for loop
ScanChar ==
    /\ ~scan.done
    /\ scan.i < Len(response)
    /\ scan' = ScanAfter(scan.i + 1, BoundStep(scan.st, response[scan.i + 1], scan.i))
    /\ UNCHANGED notScan

\* line 166: the loop is over and nothing was returned
ScanEnd ==
    /\ ~scan.done
    /\ scan.i = Len(response)
    /\ scan' = [scan EXCEPT !.done = TRUE, !.value = Boundaries(response, scan.st)]
    /\ UNCHANGED notScan

ScanNext ==
    \/ ScanChar
    \/ ScanEnd

ScanSpec == ScanInit /\ [][ScanNext]_vars

(***************************************************************************)
(* extractValidJson on its own: its first lines at one step, then the      *)
(* fallback walk one character of the text at a step.  WalkLen bounds the  *)
(* length of the texts, which are all the texts over the characters that   *)
(* the function tells apart.                                               *)
(***************************************************************************)
WalkLen == 4

WalkTexts ==
    UNION {[1..n -> {"{", "}", "[", "]", ",", " ", QUOTE, BSLASH, "a"}] : n \in 0..WalkLen}

WalkInit ==
    /\ response \in WalkTexts
    /\ origin = [kind |-> "walk", base |-> <<>>]
    /\ options = DefaultOptions
    /\ unwrapInScope = TRUE
    /\ callNo = 1
    /\ prev = NoResult
    /\ pc = "call"
    /\ jsonCache = {}
    /\ candidates = <<>>
    /\ ci = 0
    /\ pass = "main"
    /\ current = <<>>
    /\ attempts = 0
    /\ tries = 0
    /\ tryIndex = 0
    /\ result = NoResult
    /\ scan = ScanStart
    /\ walk = WalkStart

notWalk ==
    <<response, options, origin, unwrapInScope, callNo, prev, pc, jsonCache,
      candidates, ci, pass, current, attempts, tryIndex, result, tries, scan>>

\* lines 171-176: the text is too short, or the scanner gave a span
WalkReturnEarly ==
    /\ walk.at = "entry"
    /\ \/ Len(Trim(response)) < 2
       \/ HasSpan(findJsonBoundaries(response))
    /\ walk' = [walk EXCEPT !.at = "done", !.value = extractValidJson(response)]
    /\ UNCHANGED notWalk

\* lines 171-184: the scanner gave no span, the fallback starts
WalkBegin ==
    /\ walk.at = "entry"
    /\ Len(Trim(response)) >= 2
    /\ ~HasSpan(findJsonBoundaries(response))
    /\ walk' = [walk EXCEPT !.at = "walk"]
    /\ UNCHANGED notWalk

\* lines 186-228: one turn of the loop
WalkChar ==
    /\ walk.at = "walk"
    /\ walk.i < Len(response)
    /\ walk' = [walk EXCEPT !.i = @ + 1, !.st = SegStep(@, response[walk.i + 1])]
    /\ UNCHANGED notWalk

\* lines 230-231
WalkEnd ==
    /\ walk.at = "walk"
    /\ walk.i = Len(response)
    /\ walk' = [walk EXCEPT !.at = "done", !.value = Segments(walk.st)]
    /\ UNCHANGED notWalk

WalkNext ==
    \/ WalkReturnEarly
    \/ WalkBegin
    \/ WalkChar
    \/ WalkEnd

WalkSpec == WalkInit /\ [][WalkNext]_vars

(***************************************************************************)
(* Properties                                                              *)
(***************************************************************************)
\* a call has returned a ParseResult
Returned == pc = "done" /\ result.status = "returned"
\* the call succeeded with the standard decode of s
DecodedAs(s) == result.success /\ result.data = JSONParse(s).val

\* C11: a success of the truncation loop carries an object with a key or
\* an array with an element
C11_NoEmptyRecovery ==
    [][TruncAccept => (result'.data.k \in {"obj", "arr"} /\ KeysLength(result'.data) > 0)]_vars

\* C12: without allowPartial an object cut in the middle of a value fails
C12_NoShortenedValue ==
    (Returned /\ origin.kind = "cut" /\ ~options.allowPartial) => ~result.success

\* C13: the candidates are tried in the order of their positions and the
\* first that decodes wins: no result of extractJson that starts before the
\* winning candidate decodes, and a text of several blocks gives the document
\* of the first block that decodes (when the cap on the results is not reached)
C13_FirstByPosition ==
    (/\ Returned
     /\ result.success
     /\ pass = "main"
     /\ Len(extractJson(response, options.maxBlocks)) > 0)
        => LET results == ExtractResults(response, options.maxBlocks)
               won == {j \in 1..Len(results) : results[j].content = candidates[ci]}
           IN /\ \A i \in 1..Len(results) :
                    (\A j \in won : results[i].position < results[j].position)
                        => ~JSONParse(Trim(results[i].content)).ok
              /\ (origin.kind = "blocks" /\ Len(results) < options.maxBlocks)
                    => DecodedAs(origin.base)
\* two blocks that both decode, and the first one returned
C13_Witness ==
    /\ Returned
    /\ result.success
    /\ origin.kind = "blocks"
    /\ response[1] = BTICK
    /\ ci = 1
    /\ Len(candidates) >= 2
    /\ JSONParse(candidates[2]).ok
    /\ result.data # JSONParse(candidates[2]).val

\* C14: the empty text is refused with the invalid-input error before any
\* extraction, and a text of which no candidate decodes ends, all candidates
\* tried, in a failure with an error text
C14_FailureErrors ==
    /\ (pc = "done" /\ response = <<>> /\ options.kind # "null")
           => /\ result = Failure(InvalidInputError)
              /\ result.error # ""
              /\ ci = 0 /\ candidates = <<>> /\ jsonCache = {}
    /\ (Returned /\ response # <<>> /\ ~result.success)
           => /\ result = Failure(NoValidJsonError)
              /\ result.error # ""
              /\ ci > Len(candidates)
\* the empty text was refused, and the same text in a fenced block failed
\* after its candidate was tried
C14_Witness ==
    /\ Returned
    /\ origin.kind = "fenced"
    /\ origin.base = <<>>
    /\ prev = Failure(InvalidInputError)
    /\ result = Failure(NoValidJsonError)

\* C15: two failures after different numbers of distinct candidates carry
\* different error texts (here: a text and the same text in a fenced block)
C15_ErrorNamesCount ==
    (/\ Returned
     /\ origin.kind = "fenced"
     /\ origin.base # <<>>
     /\ ~result.success
     /\ ~prev.success
     /\ Len(Unique(OrPlainText(response, extractJson(response, options.maxBlocks))))
            # Len(Unique(OrPlainText(origin.base, extractJson(origin.base, options.maxBlocks)))))
        => result.error # prev.error

\* C16: the cache cannot be seen and belongs to one call: what it holds for
\* a text is what the repair computes for it, every call starts with an empty
\* cache, and a call on the text of the call before it returns the same result
C16_CacheInvisible ==
    /\ \A p \in jsonCache : p[2] = FixCompute(p[1], options.attemptFix)
    /\ pc = "call" => jsonCache = {}
    /\ (pc = "done" /\ callNo > 1 /\ response = origin.base) => result = prev
\* the last resort has read the entry that the repair of the only candidate,
\* the response itself, had written
C16_Witness ==
    /\ Returned
    /\ pass = "fixed"
    /\ attempts > 0
    /\ Len(candidates) = 0
    /\ Cardinality(jsonCache) = 1
    /\ CacheHas(jsonCache, response)

\* the character that the turn of the loop about to run reads
ScanRead == response[scan.i + 1]

\* C17: a start that the scanner has set is the offset of an opener
C17_StartAtOpener ==
    scan.st.start # -1 => response[scan.st.start + 1] \in {"{", "["}

\* C18: the scanner returns at the first closer, outside strings and not
\* escaped, that takes the depth from 1 to 0, with end one past it, and reads
\* no character after it; when the loop ends without that, end is the length
\* of the text; what it returns is what findJsonBoundaries gives for the text
C18_EndAtDepthZero ==
    /\ [][/\ ~scan.done
          /\ ScanChar =>
                /\ scan'.done <=> (/\ ScanRead \in {"}", "]"}
                                   /\ ~scan.st.inString
                                   /\ ~scan.st.escapeNext
                                   /\ scan.st.depth = 1)
                /\ scan'.done => scan'.value.end = scan.i + 1
          /\ ScanEnd => scan'.value.end = Len(response)]_vars
    /\ [](scan.done => scan.value = findJsonBoundaries(response))
\* the scanner has returned at a closer that is not the last character
C18_Witness ==
    /\ scan.done
    /\ scan.st.returned
    /\ scan.value.end = scan.i
    /\ scan.i < Len(response)

\* C19 as stated: a brace or bracket read inside a string or right after a
\* backslash leaves depth, start and end as they are, and a quote read right
\* after a backslash leaves the in-string state as it is
C19_AfterBackslash ==
    [][ScanChar =>
          /\ (/\ ScanRead \in {"{", "}", "[", "]"}
              /\ scan.st.inString \/ (scan.i >= 1 /\ response[scan.i] = BSLASH))
                => /\ scan'.st.depth = scan.st.depth
                   /\ scan'.st.start = scan.st.start
                   /\ scan'.st.end = scan.st.end
          /\ (ScanRead = QUOTE /\ scan.i >= 1 /\ response[scan.i] = BSLASH)
                => scan'.st.inString = scan.st.inString]_vars
\* C19 amended: the same with "right after a backslash" read as "while the
\* escape flag is set", that is after a backslash that was not itself escaped
C19_AfterEscape ==
    [][ScanChar =>
          /\ (/\ ScanRead \in {"{", "}", "[", "]"}
              /\ scan.st.inString \/ scan.st.escapeNext)
                => /\ scan'.st.depth = scan.st.depth
                   /\ scan'.st.start = scan.st.start
                   /\ scan'.st.end = scan.st.end
          /\ (ScanRead = QUOTE /\ scan.st.escapeNext)
                => scan'.st.inString = scan.st.inString]_vars
\* an escaped opener was read outside a string and the depth is still 0
C19_Witness ==
    /\ scan.i = 2
    /\ response[1] = BSLASH
    /\ response[2] = "{"
    /\ scan.st.depth = 0
    /\ scan.st.start = -1
    /\ ~scan.st.escapeNext

\* C20: for a text that holds a fenced block tagged json, extractJson gives
\* no result of the untagged-fence strategy
C20_UntaggedSuppressed ==
    (pc = "loop" /\ pass = "main" /\ JsonBlockExec(response, 0).found)
        => \A r \in {ExtractResults(response, options.maxBlocks)[i] :
                       i \in 1..Len(ExtractResults(response, options.maxBlocks))} :
              r.type # "code"

\* C1: with the default options a text that is a valid JSON document is
\* decoded as a whole: the call succeeds with the decode of the text
C1_WholeDocument ==
    (Returned /\ origin.kind = "doc" /\ options = DefaultOptions /\ unwrapInScope)
        => DecodedAs(response)

\* C2: a successful result carries a rawJson whose standard decode is the
\* data of the result
C2_RawJsonDecodesToData ==
    (Returned /\ result.success)
        => /\ result.hasRawJson
           /\ JSONParse(result.rawJson).ok
           /\ JSONParse(result.rawJson).val = result.data
\* a success of the truncation loop: rawJson is the re-closed text
C2_Witness == Returned /\ result.success /\ result.rawJson # current

\* C3: a returned failure carries neither data nor rawJson, and an error text
C3_FailureShape ==
    (Returned /\ ~result.success)
        => (~result.hasData /\ ~result.hasRawJson /\ result.error # "")
\* a call that tried its candidates and those of the repaired response
C3_Witness == Returned /\ ~result.success /\ pass = "fixed" /\ Len(candidates) > 0

\* C4: no call ends in a throw
C4_NeverThrows == pc = "done" => result.status = "returned"

\* C5: at the head of the truncation loop the iteration that runs next
\* returns, or shortens tryIndex and counts an attempt
C5_LoopProgress == InTruncLoop => TruncOutcome # "repeat"

\* C6: parsing the rawJson of a success succeeds with the same data
C6_Idempotent ==
    (Returned /\ origin.kind = "rawJson") => (result.success /\ result.data = prev.data)

\* C7: a text inside a fenced block tagged json gives the data the text
\* gives alone
C7_FenceTransparent ==
    (Returned /\ origin.kind = "fenced")
        => (result.hasData = prev.hasData /\ result.data = prev.data)

\* C8: a JSON object between two runs of prose without brace, bracket or
\* backtick is decoded
C8_InProse ==
    (Returned /\ origin.kind = "prose" /\ unwrapInScope) => DecodedAs(origin.base)

\* C9: with attemptFix, a document with a comma put before its last closer
\* decodes to what it is without the comma
C9_TrailingComma ==
    (Returned /\ origin.kind = "trailing" /\ options.attemptFix /\ unwrapInScope)
        => DecodedAs(origin.base)

\* C10: with attemptFix, an object with nested objects whose last closing
\* brace was removed decodes to what it was with the brace
C10_UnbalancedBrace ==
    (/\ Returned
     /\ origin.kind = "unbalanced"
     /\ origin.base \in NestedObjectDocs
     /\ options.attemptFix
     /\ unwrapInScope)
        => DecodedAs(origin.base)

\* C21: after extractJson, every stretch of the text from a { to a } with no
\* brace in between, whatever its length, is a result of the inline object
\* strategy, unless the cap on the results is reached
C21_FlatLiterals ==
    (pc = "loop" /\ pass = "main" /\ ci = 1 /\ origin.kind # "long")
        => \A i \in {k \in 1..Len(response) : response[k] = "{"} :
              \A j \in {k \in (i + 1)..Len(response) : response[k] = "}"} :
                 (\A k \in (i + 1)..(j - 1) : response[k] \notin {"{", "}"})
                     => \/ Len(ExtractResults(response, options.maxBlocks)) >= options.maxBlocks
                        \/ \E n \in 1..Len(ExtractResults(response, options.maxBlocks)) :
                              ExtractResults(response, options.maxBlocks)[n]
                                  = Result("inline", SubSeq(response, i, j), i - 1)

\* C22: the cap counts each strategy on its own: the inline object strategy
\* and the array strategy each give as many results as they give when they
\* start from an empty list, whatever the strategies before them gave
C22_CapPerStrategy ==
    (pc = "loop" /\ pass = "main" /\ ci = 1 /\ origin.kind # "long")
        => /\ Cardinality({n \in 1..Len(ExtractResults(response, options.maxBlocks)) :
                             ExtractResults(response, options.maxBlocks)[n].type = "inline"})
                = Len(JsonLikeLoop(response, 0, <<>>, options.maxBlocks, "inline", "{", "}"))
           /\ Cardinality({n \in 1..Len(ExtractResults(response, options.maxBlocks)) :
                             ExtractResults(response, options.maxBlocks)[n].type = "array"})
                = Len(JsonLikeLoop(response, 0, <<>>, options.maxBlocks, "array", "[", "]"))

\* C23: with preferFirst on, the results of extractJson are in the order of
\* the strategies: no result of a later strategy (tagged fence, untagged
\* fence, inline object, array) stands before a result of an earlier one
C23_PreferFirstOrder ==
    (pc = "loop" /\ pass = "main" /\ ci = 1 /\ options.preferFirst /\ origin.kind # "long")
        => LET order == <<"block", "code", "inline", "array">>
               sorted == ExtractResults(response, options.maxBlocks)
           IN  \A m \in 1..Len(sorted) : \A n \in (m + 1)..Len(sorted) :
                  \E a \in 1..4 : \E b \in a..4 :
                     order[a] = sorted[m].type /\ order[b] = sorted[n].type

\* the closers of the openers that s leaves open outside its strings, the
\* closer of the opener opened last first
RECURSIVE LifoClosers(_, _, _, _, _)
LifoClosers(s, i, open, inString, escapeNext) ==
    IF i > Len(s) THEN open
    ELSE IF escapeNext THEN LifoClosers(s, i + 1, open, inString, FALSE)
    ELSE IF s[i] = QUOTE THEN LifoClosers(s, i + 1, open, ~inString, FALSE)
    ELSE IF s[i] = BSLASH THEN LifoClosers(s, i + 1, open, inString, TRUE)
    ELSE IF inString THEN LifoClosers(s, i + 1, open, inString, FALSE)
    ELSE IF s[i] = "{" THEN LifoClosers(s, i + 1, <<"}">> \o open, inString, FALSE)
    ELSE IF s[i] = "[" THEN LifoClosers(s, i + 1, <<"]">> \o open, inString, FALSE)
    ELSE IF s[i] \in {"}", "]"} /\ open # <<>>
    THEN LifoClosers(s, i + 1, Tail(open), inString, FALSE)
    ELSE LifoClosers(s, i + 1, open, inString, FALSE)

\* C24: the repair of a candidate appends one closer for each opener the
\* candidate leaves open, the closer of the opener opened last first, and
\* nothing when no opener is left open (the commas before a closer are
\* dropped afterwards)
C24_LifoClose ==
    [][(pc = "fix" /\ pc' # "fix" /\ Len(current) <= 40)
          => current' = FixQuotes(FixTrailingCommas(
                            current \o LifoClosers(current, 1, <<>>, FALSE, FALSE)))]_vars

\* C25: the truncation loop is entered only with allowPartial on, a text of
\* more than 1000 characters and failed decodes before it; its first cut
\* keeps 80% of the length of the text, each later cut 90% of the cut before;
\* and the body of the loop runs at most 3 times for a candidate
C25_TruncSchedule ==
    /\ [][(pc # "trunc" /\ pc' = "trunc")
             => /\ options.allowPartial
                /\ Len(current') > PartialMinLength
                /\ attempts' >= 1
                /\ tryIndex' = (Len(current') * 8) \div 10]_vars
    /\ [][(pc = "trunc" /\ tryIndex' # tryIndex /\ pc' = "trunc")
             => tryIndex' = (tryIndex * 9) \div 10]_vars
    /\ [](tries <= MaxAttempts)

\* C26: a candidate that decodes as it stands is returned as it stands, with
\* no repair run; and with attemptFix off the call never reaches the repair,
\* the scan of the candidate, the truncation loop or the pass over the
\* repaired response, so the rawJson of a success is a trimmed stretch of
\* the response
C26_RepairOnlyAsFallback ==
    /\ [][(pc = "direct" /\ pc' = "done")
             => /\ result'.rawJson = Trim(candidates[ci])
                /\ jsonCache' = jsonCache]_vars
    /\ [](~options.attemptFix
             => /\ pc \notin {"fix", "scan", "trunc"}
                /\ pass = "main"
                /\ jsonCache = {})
    /\ []((Returned /\ ~options.attemptFix /\ result.success)
             => /\ FindFrom(response, 1, Len(response), result.rawJson) # 0
                /\ Trim(result.rawJson) = result.rawJson)
\* a call with attemptFix off has succeeded with a part of the response
C26_Witness ==
    /\ Returned
    /\ ~options.attemptFix
    /\ result.success
    /\ result.rawJson # response

\* the segments put one after the other
RECURSIVE Joined(_)
Joined(segments) ==
    IF segments = <<>> THEN <<>> ELSE Head(segments) \o Joined(Tail(segments))

\* C27: when the fallback walk of extractValidJson has run, no segment it
\* returns is blank, and the segments put one after the other are the text
\* up to a rest of white space; in the walk a segment is closed exactly when
\* a closer brings both counters to zero or when an opener is read with the
\* accumulator empty or ending in a comma; and the walk read step by step
\* returns what extractValidJson returns
C27_SegmentSplitter ==
    /\ []((walk.at = "done" /\ Len(Trim(response)) >= 2
              /\ ~HasSpan(findJsonBoundaries(response)))
             => /\ \A n \in 1..Len(walk.value) : NonBlank(walk.value[n])
                /\ Len(Joined(walk.value)) <= Len(response)
                /\ SubSeq(response, 1, Len(Joined(walk.value))) = Joined(walk.value)
                /\ \A k \in (Len(Joined(walk.value)) + 1)..Len(response) : response[k] \in WS)
    /\ [][(walk.at = "walk" /\ walk'.i = walk.i + 1)
             => (Len(walk'.st.segments) > Len(walk.st.segments)
                    <=> /\ ~walk.st.escapeNext
                        /\ ~walk.st.inString
                        /\ \/ /\ response[walk.i + 1] \in {"}", "]"}
                              /\ walk'.st.braceCount = 0
                              /\ walk'.st.bracketCount = 0
                           \/ /\ response[walk.i + 1] \in {"{", "["}
                              /\ \/ walk.st.current = <<>>
                                 \/ EndsWith(walk.st.current, ","))]_vars
    /\ [](walk.at = "done" => walk.value = extractValidJson(response))
\* the fallback walk has returned two segments or more
C27_Witness ==
    /\ walk.at = "done"
    /\ ~HasSpan(findJsonBoundaries(response))
    /\ Len(walk.value) >= 2

\* the text holds a bracket opener and no brace opener
ArrayOnly(s) == FirstIn(s, 1, Len(s), {"["}) # 0 /\ FirstIn(s, 1, Len(s), {"{"}) = 0

\* C28, as stated: a long text that is one array cut short, with no brace
\* opener in it, never gives a success
C28_ArrayNeverRecovered ==
    (/\ Returned
     /\ origin.kind = "long"
     /\ ArrayOnly(response)
     /\ response[1] = "["
     /\ CountChar(response, "[") = 1)
        => ~result.success
\* C28, amended: a cut with a bracket opener and no brace opener is re-closed
\* to a text that is not valid JSON, and the truncation loop never returns a
\* success for such a cut
C28_ArrayCutFails ==
    /\ []((InTruncLoop /\ ArrayOnly(Substring(current, 0, tryIndex)))
             => /\ ~Completed.valid
                /\ ~JSONParse(Completed.json).ok)
    /\ [][(pc = "trunc" /\ pc' = "done")
             => ~ArrayOnly(Substring(current, 0, tryIndex))]_vars
\* the truncation loop has shortened a cut with brackets only
C28_Witness ==
    /\ pc = "trunc"
    /\ unwrapInScope
    /\ attempts >= 2
    /\ ArrayOnly(Substring(current, 0, tryIndex))

====
